---- MODULE Spec2Model ----
(***************************************************************************)
(* State-machine model of the Jelly FPGA control client (src/src/lib.rs). *)
(*                                                                         *)
(* The client holds one gRPC channel and no other state.  Every public     *)
(* operation builds a request, hands it to the transport, awaits the       *)
(* response, propagates a transport error with `?` and otherwise returns   *)
(* fields of the response, after a narrowing cast in the fixed-width       *)
(* wrappers.  upload_firmware hands the transport a stream that the         *)
(* transport polls for chunks.                                             *)
(*                                                                         *)
(* Integers wider than TLC's are kept as little-endian byte sequences, so  *)
(* a u64/i64 is a sequence of 8 bytes and the Rust `as` casts are          *)
(* truncation, zero extension and sign extension of such sequences.        *)
(* The upload payload (a Vec<u8> of megabytes) is kept run-length          *)
(* encoded: a sequence of runs [b |-> byte, n |-> count], adjacent runs    *)
(* carrying different bytes, so equal vectors have equal encodings.        *)
(***************************************************************************)
EXTENDS Integers, Sequences, FiniteSets, TLC

\* ------------------------------------------------------------------------
\* Bounds of the model
\* ------------------------------------------------------------------------

\* payloads span up to MaxChunks full chunks plus one byte
MaxChunks == 2

\* the mock server hands out handles 1..MaxHandles
MaxHandles == 2

\* the mock server holds firmware in slots 0..MaxSlots-1
MaxSlots == 3

\* ------------------------------------------------------------------------
\* Little-endian byte sequences for fixed-width integers
\* ------------------------------------------------------------------------

Byte == 0 .. 255

Widths == {1, 2, 4, 8}

Pad(n, b) == [i \in 1 .. n |-> b]

\* `x as u64` for x of an unsigned type of Len(x) bytes; `x as uN` for a wider N
ZeroExtend(x, n) == x \o Pad(n - Len(x), 0)

\* a widening that clamps negative values to zero
SignExtend_clamp(x, n) ==
    IF x[Len(x)] >= 128 THEN Pad(n, 0) ELSE x \o Pad(n - Len(x), 0)

\* `x as i64` for x of a signed type of Len(x) bytes
SignExtend(x, n) == x \o Pad(n - Len(x), IF x[Len(x)] >= 128 THEN 255 ELSE 0)

\* a narrowing that keeps the high n bytes
Truncate_high(x, n) == SubSeq(x, Len(x) - n + 1, Len(x))

\* `x as u8/u16/u32`, `x as i8/i16/i32` for a 64-bit x: the low n bytes
Truncate(x, n) == SubSeq(x, 1, n)

\* the number an unsigned byte sequence denotes (used for up to 3 bytes)
RECURSIVE UVal(_)
UVal(x) == IF x = <<>> THEN 0 ELSE Head(x) + 256 * UVal(Tail(x))

\* the number a two's-complement byte sequence denotes (used for up to 4 bytes)
RECURSIVE SVal(_)
SVal(x) ==
    IF Len(x) = 1
    THEN (IF x[1] >= 128 THEN x[1] - 256 ELSE x[1])
    ELSE Head(x) + 256 * SVal(Tail(x))

Zero(w) == Pad(w, 0)
One(w) == <<1>> \o Pad(w - 1, 0)
AllOnes(w) == Pad(w, 255)
MinSigned(w) == Pad(w - 1, 0) \o <<128>>

\* the values of a w-byte integer type the model draws from
IntVals(w) == {Zero(w), One(w), AllOnes(w), MinSigned(w)}

\* ------------------------------------------------------------------------
\* Run-length encoded byte vectors (the upload payload)
\* ------------------------------------------------------------------------

RECURSIVE VLen(_)
VLen(v) == IF v = <<>> THEN 0 ELSE Head(v).n + VLen(Tail(v))

RECURSIVE Norm(_)
Norm(v) ==
    IF v = <<>> THEN <<>>
    ELSE IF Head(v).n = 0 THEN Norm(Tail(v))
    ELSE IF Len(v) = 1 THEN v
    ELSE IF v[2].n = 0 THEN Norm(<<Head(v)>> \o Tail(Tail(v)))
    ELSE IF v[2].b = Head(v).b
         THEN Norm(<<[b |-> Head(v).b, n |-> Head(v).n + v[2].n]>> \o Tail(Tail(v)))
         ELSE <<Head(v)>> \o Norm(Tail(v))

RECURSIVE VTake(_, _)
VTake(v, k) ==
    IF k <= 0 \/ v = <<>> THEN <<>>
    ELSE IF Head(v).n <= k THEN <<Head(v)>> \o VTake(Tail(v), k - Head(v).n)
    ELSE <<[b |-> Head(v).b, n |-> k]>>

RECURSIVE VDrop(_, _)
VDrop(v, k) ==
    IF v = <<>> THEN <<>>
    ELSE IF k <= 0 THEN v
    ELSE IF Head(v).n <= k THEN VDrop(Tail(v), k - Head(v).n)
    ELSE <<[b |-> Head(v).b, n |-> Head(v).n - k]>> \o Tail(v)

\* data[from..to].to_vec()
VSlice(v, from, to) == VTake(VDrop(v, from), to - from)

VConcat(a, b) == Norm(a \o b)

RECURSIVE VConcatAll(_)
VConcatAll(s) == IF s = <<>> THEN <<>> ELSE VConcat(Head(s), VConcatAll(Tail(s)))

Min(a, b) == IF a <= b THEN a ELSE b

\* a payload of len bytes whose byte value changes every period bytes
RECURSIVE MkPayload(_, _, _)
MkPayload(len, period, k) ==
    IF len <= 0 THEN <<>>
    ELSE <<[b |-> 1 + (k % 2), n |-> Min(len, period)]>>
         \o MkPayload(len - period, period, k + 1)

\* ------------------------------------------------------------------------
\* Domains the operations' arguments and the responses are drawn from
\* ------------------------------------------------------------------------

\* chunk_size of the DataStream built by upload_firmware
CHUNK_SIZE == 2 * 1024 * 1024

Names == {"a.bit", "b.dtbo"}

Paths == {"/lib/firmware/a.bit", "/missing"}

\* handle values a caller may pass
Ids == 1 .. MaxHandles

\* firmware slots a server may report or a caller may pass
Slots == {-1, 0, 1}

\* byte offsets and register indices (0x18 = 24, 0x1000 = 4096)
Addrs == {24, 4096}

\* width_bytes a caller may pass to a generic accessor
SizeArgs == {1, 2, 3, 4, 8}

\* u64 quantities that are forwarded untouched (offsets, sizes, units)
Units == {1, 8}

\* 64-bit data a server may put in a read response
Data64 ==
    IntVals(8)
    \cup {ZeroExtend(x, 8) : x \in IntVals(1) \cup IntVals(2) \cup IntVals(4)}
    \cup {SignExtend(x, 8) : x \in IntVals(1) \cup IntVals(2) \cup IntVals(4)}
    \cup {<<239, 205, 171, 137, 103, 69, 35, 1>>}

\* short byte vectors (mem_copy_to / mem_copy_from data, dtb images)
ByteVecs == {<<>>, <<222, 173>>, <<222, 173, 190, 239, 1, 2, 3, 4>>}

\* IEEE-754 bit patterns, passed through untouched: 1.0 and -0.0
F32Vals == {<<0, 0, 128, 63>>, <<0, 0, 0, 128>>}
F64Vals == {<<0, 0, 0, 0, 0, 0, 240, 63>>, <<0, 0, 0, 0, 0, 0, 0, 128>>}

\* payload lengths around every chunk boundary up to MaxChunks chunks
PayloadLens ==
    {k * CHUNK_SIZE + d : k \in 0 .. MaxChunks, d \in {-1, 0, 1}} \ {-1}

Payloads ==
    {MkPayload(len, p, 0) : len \in PayloadLens, p \in {CHUNK_SIZE - 1, CHUNK_SIZE}}

\* tonic::Status values the transport may report; the code and the message
\* of a Status sent by a server are the server's choice
Statuses ==
    { [code |-> "Unavailable", message |-> "connection closed"],
      [code |-> "Internal", message |-> "server fault"],
      [code |-> "Internal", message |-> "Failed to read file"] }

\* ------------------------------------------------------------------------
\* State
\* ------------------------------------------------------------------------

VARIABLES
    pc,        \* where the one caller of the client is: idle, sent, streaming,
               \* responded, done
    call,      \* the operation invoked and its arguments
    req,       \* the request handed to the transport for this invocation
    nreq,      \* requests handed to the transport in this invocation
    resp,      \* what the transport gave back: a response message or a Status
    ret,       \* what the operation returned to its caller
    stream,    \* the DataStream of an upload: name, data, chunk_size, offset
    polled,    \* outcome of the latest poll_next: none, chunk, end
    wire,      \* chunks handed to the transport by this upload, in order
    srvOpen,   \* mock server: handles that are open
    srvClosed, \* mock server: handles closed and not handed out again
    srvMem,    \* mock server: bytes stored at each address
    srvSlots,  \* mock server: firmware slots that are loaded
    lastWrite  \* the invocation of the latest write the mock server stored,
               \* until the handle it went through is closed

vars == <<pc, call, req, nreq, resp, ret, stream, polled, wire,
          srvOpen, srvClosed, srvMem, srvSlots, lastWrite>>

clientVars == <<pc, call, req, nreq, resp, ret>>
uploadVars == <<stream, polled, wire>>
serverVars == <<srvOpen, srvClosed, srvMem, srvSlots, lastWrite>>

NoCall == [op |-> "none"]
NoReq == [method |-> "none"]
NoResp == [kind |-> "none"]
NoRet == [kind |-> "none"]
NoStream == [name |-> "", data |-> <<>>, chunk_size |-> 0, offset |-> 0]
NoPoll == [kind |-> "none"]
NoWrite == [op |-> "none"]

Init ==
    /\ pc = "idle"
    /\ call = NoCall
    /\ req = NoReq
    /\ nreq = 0
    /\ resp = NoResp
    /\ ret = NoRet
    /\ stream = NoStream
    /\ polled = NoPoll
    /\ wire = <<>>
    /\ srvOpen = {}
    /\ srvClosed = {}
    /\ srvMem = [a \in Addrs |-> <<>>]
    /\ srvSlots = {}
    /\ lastWrite = NoWrite

\* ------------------------------------------------------------------------
\* The client: one request per operation
\* ------------------------------------------------------------------------

\* an operation that borrows the client as `&self`: it begins whatever else
\* is in progress on the same client value
Send_shared(c, r) ==
    /\ pc' = "sent"
    /\ call' = c
    /\ req' = r
    /\ nreq' = 1
    /\ resp' = NoResp
    /\ ret' = NoRet
    /\ stream' = NoStream
    /\ polled' = NoPoll
    /\ wire' = <<>>
    /\ UNCHANGED serverVars

\* self.client.<method>(Request::new(r)).await : the request is handed to
\* the transport and the caller is suspended until the transport answers.
\* Every operation takes `&mut self`, and the future it returns keeps that
\* borrow until it completes: an operation begins only when no other
\* operation on the same client value is in progress (pc = "idle").
Send(c, r) ==
    /\ pc = "idle"
    /\ pc' = "sent"
    /\ call' = c
    /\ req' = r
    /\ nreq' = 1
    /\ resp' = NoResp
    /\ ret' = NoRet
    /\ stream' = NoStream
    /\ polled' = NoPoll
    /\ wire' = <<>>
    /\ UNCHANGED serverVars

reset == Send([op |-> "reset"], [method |-> "Reset"])

load ==
    \E name \in Names :
        Send([op |-> "load", name |-> name], [method |-> "Load", name |-> name])

UnloadRequest(slot) == [method |-> "Unload", slot |-> slot]

unload ==
    \E slot \in Slots : Send([op |-> "unload", slot |-> slot], UnloadRequest(slot))

\* unload_all asking for slot -1
unload_all_minus1 == Send([op |-> "unload_all"], UnloadRequest(-1))

\* self.unload(0).await
unload_all == Send([op |-> "unload_all"], UnloadRequest(0))

remove_firmware ==
    \E name \in Names :
        Send([op |-> "remove_firmware", name |-> name],
             [method |-> "RemoveFirmware", name |-> name])

load_bitstream ==
    \E name \in Names :
        Send([op |-> "load_bitstream", name |-> name],
             [method |-> "LoadBitstream", name |-> name])

load_dtbo ==
    \E name \in Names :
        Send([op |-> "load_dtbo", name |-> name],
             [method |-> "LoadDtbo", name |-> name])

dts_to_dtb ==
    \E dts \in {"/dts-v1/;"} :
        Send([op |-> "dts_to_dtb", dts |-> dts], [method |-> "DtsToDtb", dts |-> dts])

bitstream_to_bin ==
    \E bitstream_name \in Names, bin_name \in {"a.bit.bin"}, arch \in {"zynqmp"} :
        Send([op |-> "bitstream_to_bin", bitstream_name |-> bitstream_name,
              bin_name |-> bin_name, arch |-> arch],
             [method |-> "BitstreamToBin", bitstream_name |-> bitstream_name,
              bin_name |-> bin_name, arch |-> arch])

open_mmap ==
    \E path \in {"/dev/mem"}, offset \in Addrs, size \in {4096}, unit \in Units :
        Send([op |-> "open_mmap", path |-> path, offset |-> offset,
              size |-> size, unit |-> unit],
             [method |-> "OpenMmap", path |-> path, offset |-> offset,
              size |-> size, unit |-> unit])

open_uio ==
    \E name \in {"uio0"}, unit \in Units :
        Send([op |-> "open_uio", name |-> name, unit |-> unit],
             [method |-> "OpenUio", name |-> name, unit |-> unit])

open_udmabuf ==
    \E name \in {"udmabuf0"}, cache_enable \in BOOLEAN, unit \in Units :
        Send([op |-> "open_udmabuf", name |-> name,
              cache_enable |-> cache_enable, unit |-> unit],
             [method |-> "OpenUdmabuf", name |-> name,
              cache_enable |-> cache_enable, unit |-> unit])

\* close that looks the handle up in a local table of open handles and
\* answers false itself when it is not there
close_checked ==
    \E id \in Ids :
        IF id \in srvOpen
        THEN Send([op |-> "close", id |-> id], [method |-> "Close", id |-> id])
        ELSE /\ pc = "idle"
             /\ pc' = "done"
             /\ call' = [op |-> "close", id |-> id]
             /\ req' = NoReq
             /\ nreq' = 0
             /\ resp' = NoResp
             /\ ret' = [kind |-> "ok", result |-> FALSE]
             /\ stream' = NoStream
             /\ polled' = NoPoll
             /\ wire' = <<>>
             /\ UNCHANGED serverVars

close ==
    \E id \in Ids : Send([op |-> "close", id |-> id], [method |-> "Close", id |-> id])

subclone ==
    \E id \in Ids, offset \in Addrs, size \in {4096}, unit \in Units :
        Send([op |-> "subclone", id |-> id, offset |-> offset,
              size |-> size, unit |-> unit],
             [method |-> "Subclone", id |-> id, offset |-> offset,
              size |-> size, unit |-> unit])

get_addr ==
    \E id \in Ids : Send([op |-> "get_addr", id |-> id], [method |-> "GetAddr", id |-> id])

get_size ==
    \E id \in Ids : Send([op |-> "get_size", id |-> id], [method |-> "GetSize", id |-> id])

get_phys_addr ==
    \E id \in Ids :
        Send([op |-> "get_phys_addr", id |-> id], [method |-> "GetPhysAddr", id |-> id])

\* ------------------------------------------------------------------------
\* Typed accessors: generic (caller passes the width) and fixed-width wrappers
\* ------------------------------------------------------------------------

WriteMemURequest(id, offset, data, size) ==
    [method |-> "WriteMemU", id |-> id, offset |-> offset, data |-> data, size |-> size]

write_mem_u ==
    \E id \in Ids, offset \in Addrs, data \in IntVals(8), size \in SizeArgs :
        Send([op |-> "write_mem_u", id |-> id, offset |-> offset,
              data |-> data, size |-> size],
             WriteMemURequest(id, offset, data, size))

\* write_mem_u8 .. write_mem_u64: self.write_mem_u(id, offset, data as u64, w)
write_mem_uN(w) ==
    \E id \in Ids, offset \in Addrs, data \in IntVals(w) :
        Send([op |-> "write_mem_uN", w |-> w, id |-> id, offset |-> offset,
              data |-> data],
             WriteMemURequest(id, offset, ZeroExtend(data, 8), w))

WriteMemIRequest(id, offset, data, size) ==
    [method |-> "WriteMemI", id |-> id, offset |-> offset, data |-> data, size |-> size]

write_mem_i ==
    \E id \in Ids, offset \in Addrs, data \in IntVals(8), size \in SizeArgs :
        Send([op |-> "write_mem_i", id |-> id, offset |-> offset,
              data |-> data, size |-> size],
             WriteMemIRequest(id, offset, data, size))

\* the signed wrappers all passing width 1
write_mem_iN_size1(w) ==
    \E id \in Ids, offset \in Addrs, data \in IntVals(w) :
        Send([op |-> "write_mem_iN", w |-> w, id |-> id, offset |-> offset,
              data |-> data],
             WriteMemIRequest(id, offset, SignExtend(data, 8), 1))

\* write_mem_i8 .. write_mem_i64: self.write_mem_i(id, offset, data as i64, w)
write_mem_iN(w) ==
    \E id \in Ids, offset \in Addrs, data \in IntVals(w) :
        Send([op |-> "write_mem_iN", w |-> w, id |-> id, offset |-> offset,
              data |-> data],
             WriteMemIRequest(id, offset, SignExtend(data, 8), w))

ReadMemURequest(id, offset, size) ==
    [method |-> "ReadMemU", id |-> id, offset |-> offset, size |-> size]

read_mem_u ==
    \E id \in Ids, offset \in Addrs, size \in SizeArgs :
        Send([op |-> "read_mem_u", id |-> id, offset |-> offset, size |-> size],
             ReadMemURequest(id, offset, size))

\* the unsigned wrappers all asking for width 1
read_mem_uN_size1(w) ==
    \E id \in Ids, offset \in Addrs :
        Send([op |-> "read_mem_uN", w |-> w, id |-> id, offset |-> offset],
             ReadMemURequest(id, offset, 1))

\* read_mem_u8 .. read_mem_u64: self.read_mem_u(id, offset, w), then data as uN
read_mem_uN(w) ==
    \E id \in Ids, offset \in Addrs :
        Send([op |-> "read_mem_uN", w |-> w, id |-> id, offset |-> offset],
             ReadMemURequest(id, offset, w))

ReadMemIRequest(id, offset, size) ==
    [method |-> "ReadMemI", id |-> id, offset |-> offset, size |-> size]

read_mem_i ==
    \E id \in Ids, offset \in Addrs, size \in SizeArgs :
        Send([op |-> "read_mem_i", id |-> id, offset |-> offset, size |-> size],
             ReadMemIRequest(id, offset, size))

\* read_mem_i8 .. read_mem_i64: self.read_mem_i(id, offset, w), then data as iN
read_mem_iN(w) ==
    \E id \in Ids, offset \in Addrs :
        Send([op |-> "read_mem_iN", w |-> w, id |-> id, offset |-> offset],
             ReadMemIRequest(id, offset, w))

WriteRegURequest(id, reg, data, size) ==
    [method |-> "WriteRegU", id |-> id, reg |-> reg, data |-> data, size |-> size]

write_reg_u ==
    \E id \in Ids, reg \in Addrs, data \in IntVals(8), size \in SizeArgs :
        Send([op |-> "write_reg_u", id |-> id, reg |-> reg,
              data |-> data, size |-> size],
             WriteRegURequest(id, reg, data, size))

\* the unsigned register wrappers calling through to write_mem_u
write_reg_uN_as_mem(w) ==
    \E id \in Ids, reg \in Addrs, data \in IntVals(w) :
        Send([op |-> "write_reg_uN", w |-> w, id |-> id, reg |-> reg,
              data |-> data],
             WriteMemURequest(id, reg, ZeroExtend(data, 8), w))

\* write_reg_u8 .. write_reg_u64: self.write_reg_u(id, reg, data as u64, w)
write_reg_uN(w) ==
    \E id \in Ids, reg \in Addrs, data \in IntVals(w) :
        Send([op |-> "write_reg_uN", w |-> w, id |-> id, reg |-> reg,
              data |-> data],
             WriteRegURequest(id, reg, ZeroExtend(data, 8), w))

WriteRegIRequest(id, reg, data, size) ==
    [method |-> "WriteRegI", id |-> id, reg |-> reg, data |-> data, size |-> size]

write_reg_i ==
    \E id \in Ids, reg \in Addrs, data \in IntVals(8), size \in SizeArgs :
        Send([op |-> "write_reg_i", id |-> id, reg |-> reg,
              data |-> data, size |-> size],
             WriteRegIRequest(id, reg, data, size))

\* write_reg_i8 .. write_reg_i64: self.write_reg_i(id, reg, data as i64, w)
write_reg_iN(w) ==
    \E id \in Ids, reg \in Addrs, data \in IntVals(w) :
        Send([op |-> "write_reg_iN", w |-> w, id |-> id, reg |-> reg,
              data |-> data],
             WriteRegIRequest(id, reg, SignExtend(data, 8), w))

ReadRegURequest(id, reg, size) ==
    [method |-> "ReadRegU", id |-> id, reg |-> reg, size |-> size]

read_reg_u ==
    \E id \in Ids, reg \in Addrs, size \in SizeArgs :
        Send([op |-> "read_reg_u", id |-> id, reg |-> reg, size |-> size],
             ReadRegURequest(id, reg, size))

\* read_reg_u8 .. read_reg_u64: self.read_reg_u(id, reg, w), then data as uN
read_reg_uN(w) ==
    \E id \in Ids, reg \in Addrs :
        Send([op |-> "read_reg_uN", w |-> w, id |-> id, reg |-> reg],
             ReadRegURequest(id, reg, w))

ReadRegIRequest(id, reg, size) ==
    [method |-> "ReadRegI", id |-> id, reg |-> reg, size |-> size]

read_reg_i ==
    \E id \in Ids, reg \in Addrs, size \in SizeArgs :
        Send([op |-> "read_reg_i", id |-> id, reg |-> reg, size |-> size],
             ReadRegIRequest(id, reg, size))

\* read_reg_i8 .. read_reg_i64: self.read_reg_i(id, reg, w), then data as iN
read_reg_iN(w) ==
    \E id \in Ids, reg \in Addrs :
        Send([op |-> "read_reg_iN", w |-> w, id |-> id, reg |-> reg],
             ReadRegIRequest(id, reg, w))

write_mem_f32 ==
    \E id \in Ids, offset \in Addrs, data \in F32Vals :
        Send([op |-> "write_mem_f32", id |-> id, offset |-> offset, data |-> data],
             [method |-> "WriteMemF32", id |-> id, offset |-> offset, data |-> data])

read_mem_f32 ==
    \E id \in Ids, offset \in Addrs :
        Send([op |-> "read_mem_f32", id |-> id, offset |-> offset],
             [method |-> "ReadMemF32", id |-> id, offset |-> offset, size |-> 4])

write_mem_f64 ==
    \E id \in Ids, offset \in Addrs, data \in F64Vals :
        Send([op |-> "write_mem_f64", id |-> id, offset |-> offset, data |-> data],
             [method |-> "WriteMemF64", id |-> id, offset |-> offset, data |-> data])

read_mem_f64 ==
    \E id \in Ids, offset \in Addrs :
        Send([op |-> "read_mem_f64", id |-> id, offset |-> offset],
             [method |-> "ReadMemF64", id |-> id, offset |-> offset, size |-> 8])

write_reg_f32 ==
    \E id \in Ids, reg \in Addrs, data \in F32Vals :
        Send([op |-> "write_reg_f32", id |-> id, reg |-> reg, data |-> data],
             [method |-> "WriteRegF32", id |-> id, reg |-> reg, data |-> data])

read_reg_f32 ==
    \E id \in Ids, reg \in Addrs :
        Send([op |-> "read_reg_f32", id |-> id, reg |-> reg],
             [method |-> "ReadRegF32", id |-> id, reg |-> reg, size |-> 4])

write_reg_f64 ==
    \E id \in Ids, reg \in Addrs, data \in F64Vals :
        Send([op |-> "write_reg_f64", id |-> id, reg |-> reg, data |-> data],
             [method |-> "WriteRegF64", id |-> id, reg |-> reg, data |-> data])

read_reg_f64 ==
    \E id \in Ids, reg \in Addrs :
        Send([op |-> "read_reg_f64", id |-> id, reg |-> reg],
             [method |-> "ReadRegF64", id |-> id, reg |-> reg, size |-> 8])

\* mem_copy_to that leaves out the last byte of the data
mem_copy_to_short ==
    \E id \in Ids, offset \in Addrs, data \in ByteVecs :
        Send([op |-> "mem_copy_to", id |-> id, offset |-> offset, data |-> data],
             [method |-> "MemCopyTo", id |-> id, offset |-> offset,
              data |-> SubSeq(data, 1, Len(data) - 1)])

mem_copy_to ==
    \E id \in Ids, offset \in Addrs, data \in ByteVecs :
        Send([op |-> "mem_copy_to", id |-> id, offset |-> offset, data |-> data],
             [method |-> "MemCopyTo", id |-> id, offset |-> offset, data |-> data])

mem_copy_from ==
    \E id \in Ids, offset \in Addrs, size \in {Len(d) : d \in ByteVecs} :
        Send([op |-> "mem_copy_from", id |-> id, offset |-> offset, size |-> size],
             [method |-> "MemCopyFrom", id |-> id, offset |-> offset, size |-> size])

\* ------------------------------------------------------------------------
\* Chunked upload
\* ------------------------------------------------------------------------

\* poll_next with `self.offset = end + 1`: a byte is dropped between chunks
poll_next_skip(self) ==
    IF self.offset >= VLen(self.data)
    THEN [stream |-> self, some |-> FALSE]
    ELSE LET end == Min(self.offset + self.chunk_size, VLen(self.data))
             chunk == VSlice(self.data, self.offset, end)
         IN  [stream |-> [self EXCEPT !.offset = end + 1],
              some |-> TRUE,
              item |-> [name |-> self.name, data |-> chunk]]

\* poll_next that slices from the start of the payload instead of the offset
poll_next_restart(self) ==
    IF self.offset >= VLen(self.data)
    THEN [stream |-> self, some |-> FALSE]
    ELSE LET end == Min(self.offset + self.chunk_size, VLen(self.data))
             chunk == VSlice(self.data, 0, end - self.offset)
         IN  [stream |-> [self EXCEPT !.offset = end],
              some |-> TRUE,
              item |-> [name |-> self.name, data |-> chunk]]

\* poll_next whose end test is `self.offset > self.data.len()`
poll_next_inclusive(self) ==
    IF self.offset > VLen(self.data)
    THEN [stream |-> self, some |-> FALSE]
    ELSE LET end == Min(self.offset + self.chunk_size, VLen(self.data))
             chunk == VSlice(self.data, self.offset, end)
         IN  [stream |-> [self EXCEPT !.offset = end],
              some |-> TRUE,
              item |-> [name |-> self.name, data |-> chunk]]

\* poll_next that moves the name out of the stream into its first chunk
poll_next_take_name(self) ==
    IF self.offset >= VLen(self.data)
    THEN [stream |-> self, some |-> FALSE]
    ELSE LET end == Min(self.offset + self.chunk_size, VLen(self.data))
             chunk == VSlice(self.data, self.offset, end)
         IN  [stream |-> [self EXCEPT !.offset = end, !.name = ""],
              some |-> TRUE,
              item |-> [name |-> self.name, data |-> chunk]]

\* poll_next that rewinds the stream when it reports its end
poll_next_rewind(self) ==
    IF self.offset >= VLen(self.data)
    THEN [stream |-> [self EXCEPT !.offset = 0], some |-> FALSE]
    ELSE LET end == Min(self.offset + self.chunk_size, VLen(self.data))
             chunk == VSlice(self.data, self.offset, end)
         IN  [stream |-> [self EXCEPT !.offset = end],
              some |-> TRUE,
              item |-> [name |-> self.name, data |-> chunk]]

\* poll_next with `end = self.offset + self.chunk_size`
poll_next_overrun(self) ==
    IF self.offset >= VLen(self.data)
    THEN [stream |-> self, some |-> FALSE]
    ELSE LET end == self.offset + self.chunk_size
             chunk == VSlice(self.data, self.offset, end)
         IN  [stream |-> [self EXCEPT !.offset = end],
              some |-> TRUE,
              item |-> [name |-> self.name, data |-> chunk]]

\* DataStream::poll_next: the stream after the poll and the item it yields
poll_next(self) ==
    IF self.offset >= VLen(self.data)
    THEN [stream |-> self, some |-> FALSE]
    ELSE LET end == Min(self.offset + self.chunk_size, VLen(self.data))
             chunk == VSlice(self.data, self.offset, end)
         IN  [stream |-> [self EXCEPT !.offset = end],
              some |-> TRUE,
              item |-> [name |-> self.name, data |-> chunk]]

\* a streaming request started whatever else is in progress on the client
StartUpload_shared(c, name, data) ==
    /\ pc' = "streaming"
    /\ call' = c
    /\ req' = [method |-> "UploadFirmware"]
    /\ nreq' = 1
    /\ resp' = NoResp
    /\ ret' = NoRet
    /\ stream' = [name |-> name, data |-> data, chunk_size |-> CHUNK_SIZE, offset |-> 0]
    /\ polled' = NoPoll
    /\ wire' = <<>>
    /\ UNCHANGED serverVars

\* the DataStream is built and handed to the transport as one streaming request
StartUpload(c, name, data) ==
    /\ pc = "idle"
    /\ pc' = "streaming"
    /\ call' = c
    /\ req' = [method |-> "UploadFirmware"]
    /\ nreq' = 1
    /\ resp' = NoResp
    /\ ret' = NoRet
    /\ stream' = [name |-> name, data |-> data, chunk_size |-> CHUNK_SIZE, offset |-> 0]
    /\ polled' = NoPoll
    /\ wire' = <<>>
    /\ UNCHANGED serverVars

upload_firmware ==
    \E name \in Names, data \in Payloads :
        StartUpload([op |-> "upload_firmware", name |-> name, data |-> data], name, data)

\* std::fs::read(file_path): the whole file or an io::Error
ReadFile(file_path) ==
    IF file_path = "/missing"
    THEN {[ok |-> FALSE]}
    ELSE {[ok |-> TRUE, data |-> d] : d \in Payloads}

FileError == [code |-> "Internal", message |-> "Failed to read file"]

\* upload_firmware_file that opens the streaming request before it reads the file
upload_firmware_file_open_first ==
    \E name \in Names, file_path \in Paths :
        \E rd \in ReadFile(file_path) :
            LET c == [op |-> "upload_firmware_file", name |-> name,
                      file_path |-> file_path, read |-> rd]
            IN  IF rd.ok
                THEN StartUpload(c, name, rd.data)
                ELSE /\ pc = "idle"
                     /\ pc' = "done"
                     /\ call' = c
                     /\ req' = [method |-> "UploadFirmware"]
                     /\ nreq' = 1
                     /\ resp' = NoResp
                     /\ ret' = [kind |-> "err", status |-> FileError]
                     /\ stream' = [name |-> name, data |-> <<>>,
                                   chunk_size |-> CHUNK_SIZE, offset |-> 0]
                     /\ polled' = NoPoll
                     /\ wire' = <<>>
                     /\ UNCHANGED serverVars

\* upload_firmware_file that reads only the first 2 MiB of the file
upload_firmware_file_first_block ==
    \E name \in Names, file_path \in Paths :
        \E rd \in ReadFile(file_path) :
            LET c == [op |-> "upload_firmware_file", name |-> name,
                      file_path |-> file_path, read |-> rd]
            IN  IF rd.ok
                THEN StartUpload(c, name, VTake(rd.data, CHUNK_SIZE))
                ELSE /\ pc = "idle"
                     /\ pc' = "done"
                     /\ call' = c
                     /\ req' = NoReq
                     /\ nreq' = 0
                     /\ resp' = NoResp
                     /\ ret' = [kind |-> "err", status |-> FileError]
                     /\ stream' = NoStream
                     /\ polled' = NoPoll
                     /\ wire' = <<>>
                     /\ UNCHANGED serverVars

upload_firmware_file ==
    \E name \in Names, file_path \in Paths :
        \E rd \in ReadFile(file_path) :
            LET c == [op |-> "upload_firmware_file", name |-> name,
                      file_path |-> file_path, read |-> rd]
            IN  IF rd.ok
                THEN StartUpload(c, name, rd.data)
                ELSE /\ pc = "idle"
                     /\ pc' = "done"
                     /\ call' = c
                     /\ req' = NoReq
                     /\ nreq' = 0
                     /\ resp' = NoResp
                     /\ ret' = [kind |-> "err", status |-> FileError]
                     /\ stream' = NoStream
                     /\ polled' = NoPoll
                     /\ wire' = <<>>
                     /\ UNCHANGED serverVars

\* the transport polls the stream of the request it was handed
Poll ==
    /\ pc = "streaming"
    /\ LET r == poll_next(stream)
       IN  /\ stream' = r.stream
           /\ polled' = IF r.some THEN [kind |-> "chunk"] ELSE [kind |-> "end"]
           /\ wire' = IF r.some THEN Append(wire, r.item) ELSE wire
    /\ UNCHANGED <<clientVars, serverVars>>

\* ------------------------------------------------------------------------
\* What an operation returns once the transport has answered
\* ------------------------------------------------------------------------

FlagOps ==
    {"reset", "unload", "unload_all", "upload_firmware", "upload_firmware_file",
     "remove_firmware", "load_bitstream", "load_dtbo", "bitstream_to_bin", "close",
     "write_mem_u", "write_mem_uN", "write_mem_i", "write_mem_iN",
     "write_reg_u", "write_reg_uN", "write_reg_i", "write_reg_iN",
     "write_mem_f32", "write_mem_f64", "write_reg_f32", "write_reg_f64",
     "mem_copy_to"}

DataOps ==
    {"read_mem_u", "read_mem_i", "read_reg_u", "read_reg_i",
     "read_mem_f32", "read_mem_f64", "read_reg_f32", "read_reg_f64",
     "mem_copy_from"}

CastOps == {"read_mem_uN", "read_mem_iN", "read_reg_uN", "read_reg_iN"}

IdOps == {"open_mmap", "open_uio", "open_udmabuf", "subclone"}

\* Ok(true) whatever the response says
Ok1_true(result) == [kind |-> "ok", result |-> TRUE]

Ok1(result) == [kind |-> "ok", result |-> result]
Ok2(result, value) == [kind |-> "ok", result |-> result, value |-> value]

\* Ok(response.into_inner().result), Ok((inner.result, inner.<field>)),
\* Ok((result, data as uN))
Decode(c, m) ==
    CASE c.op \in FlagOps -> Ok1(m.result)
      [] c.op \in DataOps -> Ok2(m.result, m.data)
      [] c.op \in CastOps -> Ok2(m.result, Truncate(m.data, c.w))
      [] c.op \in IdOps -> Ok2(m.result, m.id)
      [] c.op = "load" -> Ok2(m.result, m.slot)
      [] c.op = "dts_to_dtb" -> Ok2(m.result, m.dtb)
      [] c.op = "get_addr" -> Ok2(m.result, m.addr)
      [] c.op = "get_size" -> Ok2(m.result, m.size)
      [] c.op = "get_phys_addr" -> Ok2(m.result, m.phys_addr)

\* Outcome that reports a response whose result is false as an error
Outcome_conflate(c, rsp) ==
    IF rsp.kind = "err"
    THEN [kind |-> "err", status |-> rsp.status]
    ELSE IF ~rsp.msg.result
         THEN [kind |-> "err", status |-> [code |-> "Unknown", message |-> "operation failed"]]
         ELSE Decode(c, rsp.msg)

\* `.await?` : a Status from the transport is returned as it is
Outcome(c, rsp) ==
    IF rsp.kind = "err"
    THEN [kind |-> "err", status |-> rsp.status]
    ELSE Decode(c, rsp.msg)

\* Return that sends the request again when the transport reported an error
Return_retry ==
    /\ pc = "responded"
    /\ IF resp.kind = "err" /\ nreq < 2 /\ call.op \notin {"upload_firmware", "upload_firmware_file"}
       THEN /\ pc' = "sent"
            /\ nreq' = nreq + 1
            /\ resp' = NoResp
            /\ UNCHANGED <<call, req, ret, uploadVars, serverVars>>
       ELSE /\ pc' = "done"
            /\ ret' = Outcome(call, resp)
            /\ UNCHANGED <<call, req, nreq, resp, uploadVars, serverVars>>

\* Return that does not wait for the response of a streaming request
Return_early ==
    /\ pc \in {"responded", "streaming"}
    /\ pc' = "done"
    /\ ret' = IF pc = "streaming" THEN Ok1(TRUE) ELSE Outcome(call, resp)
    /\ UNCHANGED <<call, req, nreq, resp, uploadVars, serverVars>>

Return ==
    /\ pc = "responded"
    /\ pc' = "done"
    /\ ret' = Outcome(call, resp)
    /\ UNCHANGED <<call, req, nreq, resp, uploadVars, serverVars>>

\* ------------------------------------------------------------------------
\* The transport and an unspecified server behind it
\* ------------------------------------------------------------------------

FlagMethods ==
    {"Reset", "Unload", "UploadFirmware", "RemoveFirmware", "LoadBitstream",
     "LoadDtbo", "BitstreamToBin", "Close",
     "WriteMemU", "WriteMemI", "WriteRegU", "WriteRegI",
     "WriteMemF32", "WriteMemF64", "WriteRegF32", "WriteRegF64", "MemCopyTo"}

\* the well-formed response messages of a method
Responses(method) ==
    CASE method \in FlagMethods -> {[result |-> b] : b \in BOOLEAN}
      [] method = "Load" -> {[result |-> b, slot |-> x] : b \in BOOLEAN, x \in Slots}
      [] method = "DtsToDtb" -> {[result |-> b, dtb |-> x] : b \in BOOLEAN, x \in ByteVecs}
      [] method \in {"OpenMmap", "OpenUio", "OpenUdmabuf", "Subclone"} ->
            {[result |-> b, id |-> x] : b \in BOOLEAN, x \in Ids}
      [] method = "GetAddr" -> {[result |-> b, addr |-> x] : b \in BOOLEAN, x \in Addrs}
      [] method = "GetSize" -> {[result |-> b, size |-> x] : b \in BOOLEAN, x \in {0, 4096}}
      [] method = "GetPhysAddr" ->
            {[result |-> b, phys_addr |-> x] : b \in BOOLEAN, x \in Addrs}
      [] method \in {"ReadMemU", "ReadMemI", "ReadRegU", "ReadRegI"} ->
            {[result |-> b, data |-> x] : b \in BOOLEAN, x \in Data64}
      [] method \in {"ReadMemF32", "ReadRegF32"} ->
            {[result |-> b, data |-> x] : b \in BOOLEAN, x \in F32Vals}
      [] method \in {"ReadMemF64", "ReadRegF64"} ->
            {[result |-> b, data |-> x] : b \in BOOLEAN, x \in F64Vals}
      [] method = "MemCopyFrom" ->
            {[result |-> b, data |-> x] : b \in BOOLEAN, x \in ByteVecs}

\* the server answers a unary request with some well-formed response
Respond ==
    /\ pc = "sent"
    /\ \E m \in Responses(req.method) : resp' = [kind |-> "ok", msg |-> m]
    /\ pc' = "responded"
    /\ UNCHANGED <<call, req, nreq, ret, uploadVars, serverVars>>

\* the server answers an upload once the stream has ended
RespondUpload ==
    /\ pc = "streaming"
    /\ polled.kind = "end"
    /\ \E m \in Responses(req.method) : resp' = [kind |-> "ok", msg |-> m]
    /\ pc' = "responded"
    /\ UNCHANGED <<call, req, nreq, ret, uploadVars, serverVars>>

\* the transport reports a failure instead of a response
TransportFail ==
    /\ pc \in {"sent", "streaming"}
    /\ \E st \in Statuses : resp' = [kind |-> "err", status |-> st]
    /\ pc' = "responded"
    /\ UNCHANGED <<call, req, nreq, ret, uploadVars, serverVars>>

\* the caller takes the returned value and the invocation is over
Finish ==
    /\ pc = "done"
    /\ pc' = "idle"
    /\ call' = NoCall
    /\ req' = NoReq
    /\ nreq' = 0
    /\ resp' = NoResp
    /\ ret' = NoRet
    /\ stream' = NoStream
    /\ polled' = NoPoll
    /\ wire' = <<>>
    /\ UNCHANGED serverVars

\* ------------------------------------------------------------------------
\* A mock server that stores the bytes written and echoes them
\* ------------------------------------------------------------------------

\* every mock device is DeviceSize bytes long
DeviceSize == 4096

FreeIds == (1 .. MaxHandles) \ srvOpen

MinOf(S) == CHOOSE x \in S : \A y \in S : x <= y

RegMethods ==
    {"WriteRegU", "WriteRegI", "ReadRegU", "ReadRegI"}

AddrOf(r) == IF r.method \in RegMethods THEN r.reg ELSE r.offset

InRange(a, n) == a + n <= DeviceSize

\* the n bytes stored at address a; bytes never written read as zero
ReadBytes(a, n) == SubSeq(srvMem[a] \o Pad(n, 0), 1, n)

Unchanged(m) ==
    [msg |-> m, open |-> srvOpen, closed |-> srvClosed, mem |-> srvMem, wrote |-> FALSE]

Stored(a, bytes) ==
    [msg |-> [result |-> TRUE], open |-> srvOpen, closed |-> srvClosed,
     mem |-> [srvMem EXCEPT ![a] = bytes], wrote |-> TRUE]

HandedOut(h) ==
    [msg |-> [result |-> TRUE, id |-> h], open |-> srvOpen \cup {h},
     closed |-> srvClosed \ {h}, mem |-> srvMem, wrote |-> FALSE]

\* firmware the mock server can load
KnownFirmware == {"a.bit"}

FreeSlots == (0 .. MaxSlots - 1) \ srvSlots

CanLoad(r) == r.name \in KnownFirmware /\ FreeSlots # {}

\* the loaded slots after the mock server has served request r: a load takes
\* the lowest free slot, an unload frees the slot it names and no other
MockSlots(r) ==
    CASE r.method = "Load" ->
            IF CanLoad(r) THEN srvSlots \cup {MinOf(FreeSlots)} ELSE srvSlots
      [] r.method = "Unload" -> srvSlots \ {r.slot}
      [] OTHER -> srvSlots

\* the mock server's response to request r and its state afterwards
MockServe(r) ==
    CASE r.method = "Load" ->
            IF CanLoad(r)
            THEN Unchanged([result |-> TRUE, slot |-> MinOf(FreeSlots)])
            ELSE Unchanged([result |-> FALSE, slot |-> -1])
      [] r.method = "Unload" -> Unchanged([result |-> r.slot \in srvSlots])
      [] r.method \in {"OpenMmap", "OpenUio", "OpenUdmabuf"} ->
            IF FreeIds = {}
            THEN Unchanged([result |-> FALSE, id |-> 0])
            ELSE HandedOut(MinOf(FreeIds))
      [] r.method = "Subclone" ->
            IF r.id \in srvOpen /\ FreeIds # {}
            THEN HandedOut(MinOf(FreeIds))
            ELSE Unchanged([result |-> FALSE, id |-> 0])
      [] r.method = "Close" ->
            IF r.id \in srvOpen
            THEN [msg |-> [result |-> TRUE], open |-> srvOpen \ {r.id},
                  closed |-> srvClosed \cup {r.id}, mem |-> srvMem, wrote |-> FALSE]
            ELSE Unchanged([result |-> FALSE])
      [] r.method = "GetAddr" ->
            Unchanged([result |-> r.id \in srvOpen, addr |-> 0])
      [] r.method = "GetSize" ->
            Unchanged([result |-> r.id \in srvOpen,
                       size |-> IF r.id \in srvOpen THEN DeviceSize ELSE 0])
      [] r.method = "GetPhysAddr" ->
            Unchanged([result |-> r.id \in srvOpen, phys_addr |-> 0])
      [] r.method \in {"WriteMemU", "WriteMemI", "WriteRegU", "WriteRegI"} ->
            IF r.id \in srvOpen /\ r.size \in Widths /\ InRange(AddrOf(r), r.size)
            THEN Stored(AddrOf(r), SubSeq(r.data, 1, r.size))
            ELSE Unchanged([result |-> FALSE])
      [] r.method \in {"ReadMemU", "ReadRegU"} ->
            IF r.id \in srvOpen /\ r.size \in Widths /\ InRange(AddrOf(r), r.size)
            THEN Unchanged([result |-> TRUE,
                            data |-> ReadBytes(AddrOf(r), r.size) \o Pad(8 - r.size, 0)])
            ELSE Unchanged([result |-> FALSE, data |-> Pad(8, 0)])
      [] r.method \in {"ReadMemI", "ReadRegI"} ->
            IF r.id \in srvOpen /\ r.size \in Widths /\ InRange(AddrOf(r), r.size)
            THEN LET x == ReadBytes(AddrOf(r), r.size)
                 IN  Unchanged([result |-> TRUE,
                                data |-> x \o Pad(8 - r.size,
                                                  IF x[r.size] >= 128 THEN 255 ELSE 0)])
            ELSE Unchanged([result |-> FALSE, data |-> Pad(8, 0)])
      [] r.method = "MemCopyTo" ->
            IF r.id \in srvOpen /\ InRange(r.offset, Len(r.data))
            THEN Stored(r.offset, r.data)
            ELSE Unchanged([result |-> FALSE])
      [] r.method = "MemCopyFrom" ->
            IF r.id \in srvOpen /\ InRange(r.offset, r.size)
            THEN Unchanged([result |-> TRUE, data |-> ReadBytes(r.offset, r.size)])
            ELSE Unchanged([result |-> FALSE, data |-> <<>>])

\* the transport delivers the request to the mock server and its response back
MockRespond ==
    /\ pc = "sent"
    /\ pc' = "responded"
    /\ LET s == MockServe(req)
       IN  /\ resp' = [kind |-> "ok", msg |-> s.msg]
           /\ srvOpen' = s.open
           /\ srvClosed' = s.closed
           /\ srvMem' = s.mem
           /\ srvSlots' = MockSlots(req)
           /\ lastWrite' =
                  IF s.wrote THEN call
                  ELSE IF /\ req.method = "Close"
                          /\ s.msg.result
                          /\ lastWrite # NoWrite
                          /\ lastWrite.id = req.id
                       THEN NoWrite
                       ELSE lastWrite
    /\ UNCHANGED <<call, req, nreq, ret, uploadVars>>

FirmwareCalls ==
    \/ reset
    \/ load
    \/ unload
    \/ unload_all
    \/ remove_firmware
    \/ load_bitstream
    \/ load_dtbo
    \/ dts_to_dtb
    \/ bitstream_to_bin

HandleCalls ==
    \/ open_mmap
    \/ open_uio
    \/ open_udmabuf
    \/ close
    \/ subclone
    \/ get_addr
    \/ get_size
    \/ get_phys_addr

GenericCalls ==
    \/ write_mem_u
    \/ write_mem_i
    \/ read_mem_u
    \/ read_mem_i
    \/ write_reg_u
    \/ write_reg_i
    \/ read_reg_u
    \/ read_reg_i

FixedWidthCalls ==
    \/ \E w \in Widths : write_mem_uN(w)
    \/ \E w \in Widths : write_mem_iN(w)
    \/ \E w \in Widths : read_mem_uN(w)
    \/ \E w \in Widths : read_mem_iN(w)
    \/ \E w \in Widths : write_reg_uN(w)
    \/ \E w \in Widths : write_reg_iN(w)
    \/ \E w \in Widths : read_reg_uN(w)
    \/ \E w \in Widths : read_reg_iN(w)

FloatCalls ==
    \/ write_mem_f32
    \/ write_mem_f64
    \/ read_mem_f32
    \/ read_mem_f64
    \/ write_reg_f32
    \/ write_reg_f64
    \/ read_reg_f32
    \/ read_reg_f64

\* the public operations of JellyFpgaClient
Calls ==
    \/ FirmwareCalls
    \/ upload_firmware
    \/ upload_firmware_file
    \/ HandleCalls
    \/ GenericCalls
    \/ FixedWidthCalls
    \/ FloatCalls
    \/ mem_copy_to
    \/ mem_copy_from

Next ==
    \/ FirmwareCalls
    \/ upload_firmware
    \/ upload_firmware_file
    \/ HandleCalls
    \/ GenericCalls
    \/ FixedWidthCalls
    \/ FloatCalls
    \/ mem_copy_to
    \/ mem_copy_from
    \/ Poll
    \/ Respond
    \/ RespondUpload
    \/ TransportFail
    \/ Return
    \/ Finish

Spec == Init /\ [][Next]_vars

\* a transport that keeps polling the stream of a request it is sending
SpecLive == Init /\ [][Next]_vars /\ WF_vars(Poll)

\* the client against the mock server over a transport that delivers
NextMock ==
    \/ HandleCalls
    \/ FixedWidthCalls
    \/ mem_copy_to
    \/ mem_copy_from
    \/ MockRespond
    \/ Return
    \/ Finish

SpecMock == Init /\ [][NextMock]_vars

\* the firmware slot operations against the mock server
NextFirmware ==
    \/ load
    \/ unload
    \/ unload_all
    \/ MockRespond
    \/ Return
    \/ Finish

SpecFirmware == Init /\ [][NextFirmware]_vars

\* ------------------------------------------------------------------------
\* Properties
\* ------------------------------------------------------------------------

TwoMiB == 2097152

UploadOps == {"upload_firmware", "upload_firmware_file"}

\* the payload the caller gave to the upload in progress
PayloadOf(c) == IF c.op = "upload_firmware" THEN c.data ELSE c.read.data

ChunkData(w) == [i \in 1 .. Len(w) |-> w[i].data]

\* bytes handed to the transport by the chunks of w
RECURSIVE Handed(_)
Handed(w) == IF w = <<>> THEN 0 ELSE VLen(Head(w).data) + Handed(Tail(w))

Uploading == pc \in {"streaming", "responded", "done"} /\ req.method = "UploadFirmware"

\* C1: every chunk of an upload is at most 2 MiB long, and once the stream
\* has ended the chunks number ceil(|B| / 2 MiB) and their data, concatenated
\* in emission order, is the payload B.
C1_ChunksRebuildPayload ==
    Uploading =>
        /\ \A i \in 1 .. Len(wire) : VLen(wire[i].data) <= TwoMiB
        /\ polled.kind = "end" =>
              /\ Len(wire) = (VLen(PayloadOf(call)) + TwoMiB - 1) \div TwoMiB
              /\ VConcatAll(ChunkData(wire)) = PayloadOf(call)

C1_Witness ==
    /\ Uploading
    /\ polled.kind = "end"
    /\ VLen(PayloadOf(call)) = TwoMiB + 1
    /\ Len(wire) = 2
    /\ VLen(wire[2].data) = 1

\* C2: while an upload is streaming the chunks reach the transport one at a
\* time and in payload order: a step hands over at most one chunk, that
\* chunk is not empty and is exactly the bytes of the payload that follow
\* the chunks handed over before, and the producer is never ahead of what
\* it has handed over.
C2_StrictOrder ==
    [][(pc = "streaming" /\ pc' = "streaming") =>
          /\ stream'.offset = Handed(wire')
          /\ \/ wire' = wire
             \/ /\ Len(wire') = Len(wire) + 1
                /\ SubSeq(wire', 1, Len(wire)) = wire
                /\ Handed(wire') > Handed(wire)
                /\ wire'[Len(wire')].data =
                      VSlice(PayloadOf(call), Handed(wire), Handed(wire'))]_vars

C2_Witness ==
    /\ pc = "streaming"
    /\ Len(wire) = 3
    /\ polled.kind = "chunk"

\* C3 (as stated): a well-formed response is returned as a normal value
\* carrying the response's result flag, and an error is returned only when
\* the transport reported a failure.
C3_ErrorOnlyFromTransport ==
    pc = "done" =>
        /\ resp.kind = "ok" => (ret.kind = "ok" /\ ret.result = resp.msg.result)
        /\ ret.kind = "err" => resp.kind = "err"

\* C3 (amended): a well-formed response is returned as a normal value
\* carrying the response's result flag, and an error is returned only when
\* the transport reported a failure or, in upload_firmware_file, when the
\* local file could not be read.
C3_FalseIsNotAnError ==
    pc = "done" =>
        /\ resp.kind = "ok" => (ret.kind = "ok" /\ ret.result = resp.msg.result)
        /\ ret.kind = "err" =>
              \/ resp.kind = "err"
              \/ (call.op = "upload_firmware_file" /\ ~call.read.ok)

C3_Witness ==
    /\ pc = "done"
    /\ call.op = "load"
    /\ resp.kind = "ok"
    /\ ~resp.msg.result
    /\ ret = [kind |-> "ok", result |-> FALSE, value |-> resp.msg.slot]

\* C4: an error reported by the transport is what the operation returns,
\* and an invocation of an operation other than an upload hands exactly one
\* request to the transport, also after an error.
C4_ErrorReturnedNoRetry ==
    /\ (pc = "done" /\ resp.kind = "err") =>
          (ret.kind = "err" /\ ret.status = resp.status)
    /\ (pc \in {"sent", "responded", "done"} /\ call.op \notin UploadOps) => nreq = 1
    /\ nreq <= 1

C4_Witness ==
    /\ pc = "done"
    /\ call.op = "write_mem_u"
    /\ resp.kind = "err"
    /\ ret.kind = "err"
    /\ nreq = 1

SignedWriteOps == {"write_mem_iN", "write_reg_iN"}

UnsignedReadOps == {"read_mem_uN", "read_reg_uN"}

SignedReadOps == {"read_mem_iN", "read_reg_iN"}

\* the offset or register index an invocation was given
AddrArg(c) == IF "reg" \in DOMAIN c THEN c.reg ELSE c.offset

HasId(c) == "id" \in DOMAIN c

\* the fixed-width write of the same address space and signedness as a read
WriterOf(op) ==
    CASE op = "read_mem_uN" -> "write_mem_uN"
      [] op = "read_mem_iN" -> "write_mem_iN"
      [] op = "read_reg_uN" -> "write_reg_uN"
      [] op = "read_reg_iN" -> "write_reg_iN"

\* the latest write the server stored went through the handle and to the
\* address of the read in progress, with the same width
SameLocation ==
    /\ lastWrite.op \in {"write_mem_uN", "write_mem_iN", "write_reg_uN", "write_reg_iN"}
    /\ lastWrite.id = call.id
    /\ AddrArg(lastWrite) = AddrArg(call)
    /\ lastWrite.w = call.w

\* C5: against the mock server, a fixed-width read that follows the
\* fixed-width write of v of the same address space, signedness and width at
\* the same handle and address, with no write in between, returns (true, v).
C5_RoundTrip ==
    (pc = "done" /\ call.op \in CastOps /\ SameLocation
        /\ lastWrite.op = WriterOf(call.op)) =>
        ret = [kind |-> "ok", result |-> TRUE, value |-> lastWrite.data]

C5_Witness ==
    /\ pc = "done"
    /\ call.op = "read_mem_uN"
    /\ call.w = 8
    /\ SameLocation
    /\ lastWrite.op = "write_mem_uN"
    /\ lastWrite.data = <<1, 0, 0, 0, 0, 0, 0, 0>>
    /\ ret = [kind |-> "ok", result |-> TRUE, value |-> <<1, 0, 0, 0, 0, 0, 0, 0>>]

\* C6: a fixed-width read returns the response's result flag unchanged and
\* the low w bytes of the response's 64-bit data: as an unsigned number the
\* data modulo 2^(8w), as a signed number that value read with bit 8w-1 as
\* the sign.
C6_ExactExtensionOnRead ==
    (pc = "done" /\ call.op \in CastOps /\ resp.kind = "ok") =>
        LET d == resp.msg.data
            w == call.w
            v == ret.value
            m == IF w = 1 THEN 256 ELSE 65536
            low == (d[1] + 256 * d[2]) % m
        IN  /\ ret.kind = "ok"
            /\ ret.result = resp.msg.result
            /\ Len(v) = w
            /\ \A i \in 1 .. w : v[i] = d[i]
            /\ (call.op \in UnsignedReadOps /\ w <= 2) => UVal(v) = low
            /\ (call.op \in SignedReadOps /\ w <= 2) =>
                  SVal(v) = IF low >= m \div 2 THEN low - m ELSE low

C6_Witness ==
    /\ pc = "done"
    /\ call.op = "read_mem_iN"
    /\ call.w = 2
    /\ resp.kind = "ok"
    /\ resp.msg.data = <<0, 128, 0, 0, 0, 0, 0, 0>>
    /\ ret.result = resp.msg.result
    /\ SVal(ret.value) = -32768

\* C7: a fixed-width signed write of v at width w sends width_bytes = w and
\* a 64-bit data field whose low w bytes are the bytes of v and whose other
\* bytes repeat the sign of v.
C7_ExactTruncationOnWrite ==
    (pc \in {"sent", "responded", "done"} /\ call.op \in SignedWriteOps) =>
        /\ req.method = IF call.op = "write_mem_iN" THEN "WriteMemI" ELSE "WriteRegI"
        /\ req.id = call.id
        /\ AddrOf(req) = AddrArg(call)
        /\ req.size = call.w
        /\ Len(call.data) = call.w
        /\ Len(req.data) = 8
        /\ \A i \in 1 .. call.w : req.data[i] = call.data[i]
        /\ \A i \in (call.w + 1) .. 8 :
              req.data[i] = IF call.data[call.w] >= 128 THEN 255 ELSE 0

C7_Witness ==
    /\ pc = "sent"
    /\ call.op = "write_reg_iN"
    /\ call.w = 2
    /\ SVal(call.data) = -32768
    /\ req.size = 2
    /\ req.data = <<0, 128, 255, 255, 255, 255, 255, 255>>

\* C8: against the mock server, the unsigned w-byte read of the location a
\* signed w-byte write of v went to returns true and the bit pattern of v,
\* the number v mod 2^(8w); the signed read returns v itself.
C8_SameBitsOtherSign ==
    (pc = "done" /\ call.op \in CastOps /\ SameLocation) =>
        LET v == lastWrite.data
            w == call.w
            m == IF w = 1 THEN 256 ELSE 65536
        IN  /\ (lastWrite.op = "write_reg_iN" /\ call.op = "read_reg_uN") \/
               (lastWrite.op = "write_mem_iN" /\ call.op = "read_mem_uN") =>
                  /\ ret.kind = "ok"
                  /\ ret.result
                  /\ ret.value = v
                  /\ w <= 2 => UVal(ret.value) = SVal(v) % m
            /\ (lastWrite.op = "write_reg_iN" /\ call.op = "read_reg_iN" /\ w <= 4) =>
                  /\ ret.kind = "ok"
                  /\ ret.result
                  /\ SVal(ret.value) = SVal(v)

C8_Witness ==
    /\ pc = "done"
    /\ call.op = "read_reg_uN"
    /\ call.w = 1
    /\ call.reg = 24
    /\ SameLocation
    /\ lastWrite.op = "write_reg_iN"
    /\ SVal(lastWrite.data) = -1
    /\ ret.kind = "ok"
    /\ ret.result
    /\ UVal(ret.value) = 255

\* C9: against the mock server, an operation on a handle that was closed and
\* has not been handed out again gets a response whose result is false,
\* leaves the handle closed, and returns that false flag as a normal value.
C9_ClosedHandleFails ==
    [][/\ (pc = "sent" /\ HasId(call) /\ call.id \in srvClosed) =>
             /\ pc' = "responded"
             /\ resp'.kind = "ok"
             /\ ~resp'.msg.result
             /\ call.id \in srvClosed'
       /\ (pc = "responded" /\ HasId(call) /\ call.id \in srvClosed
             /\ resp.kind = "ok" /\ ~resp.msg.result) =>
             /\ pc' = "done"
             /\ ret'.kind = "ok"
             /\ ~ret'.result]_vars

C9_Witness ==
    /\ pc = "done"
    /\ call.op = "close"
    /\ call.id \in srvClosed
    /\ resp.kind = "ok"
    /\ ~resp.msg.result
    /\ ret = [kind |-> "ok", result |-> FALSE]

\* C10: against the mock server, mem_copy_from(handle, offset, |D|) that
\* follows a stored mem_copy_to(handle, offset, D), with no write in between,
\* returns (true, D); each of the two calls hands the transport one request,
\* which carries the whole of D or the whole length.
C10_BulkRoundTrip ==
    /\ (pc = "done" /\ call.op = "mem_copy_from" /\ lastWrite.op = "mem_copy_to"
          /\ lastWrite.id = call.id /\ lastWrite.offset = call.offset
          /\ call.size = Len(lastWrite.data)) =>
          ret = [kind |-> "ok", result |-> TRUE, value |-> lastWrite.data]
    /\ (pc \in {"sent", "responded", "done"} /\ call.op = "mem_copy_to") =>
          /\ nreq = 1
          /\ req = [method |-> "MemCopyTo", id |-> call.id, offset |-> call.offset,
                    data |-> call.data]
    /\ (pc \in {"sent", "responded", "done"} /\ call.op = "mem_copy_from") =>
          /\ nreq = 1
          /\ req = [method |-> "MemCopyFrom", id |-> call.id, offset |-> call.offset,
                    size |-> call.size]

C10_Witness ==
    /\ pc = "done"
    /\ call.op = "mem_copy_from"
    /\ call.size = 8
    /\ lastWrite.op = "mem_copy_to"
    /\ lastWrite.id = call.id
    /\ lastWrite.offset = call.offset
    /\ lastWrite.data = <<222, 173, 190, 239, 1, 2, 3, 4>>
    /\ nreq = 1
    /\ ret = [kind |-> "ok", result |-> TRUE, value |-> <<222, 173, 190, 239, 1, 2, 3, 4>>]

\* the invocation in progress is an upload_firmware_file whose file read failed
ReadFailed == call.op = "upload_firmware_file" /\ ~call.read.ok

\* C11: an upload_firmware_file that cannot read its file has returned an
\* error without any network activity: in that invocation no request was
\* handed to the transport, no stream was built or polled and no chunk was
\* handed over.
C11_FileErrorBeforeNetwork ==
    ReadFailed =>
        /\ pc = "done"
        /\ ret.kind = "err"
        /\ nreq = 0
        /\ req = NoReq
        /\ stream = NoStream
        /\ polled = NoPoll
        /\ wire = <<>>
        /\ resp = NoResp

C11_Witness ==
    /\ ReadFailed
    /\ call.file_path = "/missing"
    /\ pc = "done"
    /\ ret = [kind |-> "err", status |-> FileError]
    /\ nreq = 0
    /\ wire = <<>>

\* C12 (as stated): the value returned for a local file read failure is
\* returned for no failure of the transport or the server, so the caller can
\* tell the two apart from the returned value alone.
C12_FileErrorDistinct ==
    (pc = "done" /\ resp.kind = "err") =>
        /\ ret.kind = "err"
        /\ ret.status # FileError

\* C13: an upload returns a flag only once every chunk of the payload has
\* been handed to the transport and the stream has ended, the flag is the
\* result of the one response delivered for the call, and a response or
\* error once delivered is not followed by another in the same call; an
\* upload that ends with a transport error returns that error and nothing
\* else, so no count of the chunks consumed.
C13_FlagAfterWholeStream ==
    /\ [](Uploading =>
            /\ nreq = 1
            /\ (pc = "done" /\ ret.kind = "ok") =>
                  /\ polled.kind = "end"
                  /\ Handed(wire) = VLen(PayloadOf(call))
                  /\ VConcatAll(ChunkData(wire)) = PayloadOf(call)
                  /\ resp.kind = "ok"
                  /\ ret = [kind |-> "ok", result |-> resp.msg.result]
            /\ (pc = "done" /\ ret.kind # "ok") =>
                  /\ resp.kind = "err"
                  /\ ret = [kind |-> "err", status |-> resp.status])
    /\ [][(Uploading /\ resp # NoResp /\ pc' # "idle") => resp' = resp]_vars

C13_Witness ==
    /\ pc = "done"
    /\ call.op = "upload_firmware"
    /\ VLen(call.data) = 2 * TwoMiB
    /\ Len(wire) = 2
    /\ polled.kind = "end"
    /\ resp = [kind |-> "ok", msg |-> [result |-> FALSE]]
    /\ ret = [kind |-> "ok", result |-> FALSE]

\* C14: an upload of a zero-length payload hands the transport one streaming
\* request and no chunk: the stream ends on its first poll, and the call
\* returns the result of the server's response to the empty stream.
C14_EmptyPayloadEmptyStream ==
    (Uploading /\ VLen(PayloadOf(call)) = 0) =>
        /\ nreq = 1
        /\ wire = <<>>
        /\ polled.kind \in {"none", "end"}
        /\ stream.offset = 0
        /\ (pc = "done" /\ resp.kind = "ok") =>
              ret = [kind |-> "ok", result |-> resp.msg.result]

C14_Witness ==
    /\ pc = "done"
    /\ call.op = "upload_firmware"
    /\ call.data = <<>>
    /\ nreq = 1
    /\ polled.kind = "end"
    /\ wire = <<>>
    /\ ret = [kind |-> "ok", result |-> TRUE]

\* C15: every chunk an upload has handed to the transport carries the name
\* the upload was called with.
C15_SameNameOnEveryChunk ==
    Uploading => \A i \in 1 .. Len(wire) : wire[i].name = call.name

C15_Witness ==
    /\ Uploading
    /\ call.op = "upload_firmware"
    /\ call.name = "b.dtbo"
    /\ Len(wire) = 3
    /\ \A i \in 1 .. 3 : wire[i].name = "b.dtbo"

\* an operation has begun on the client and has not returned yet
InProgress == pc \in {"sent", "streaming", "responded"}

\* C16: while an operation on the client is in progress no other operation
\* begins: the invocation and the one request it handed to the transport
\* stay as they are until the operation has returned its response or error.
C16_OneRequestInFlight ==
    [][InProgress =>
          /\ call' = call
          /\ req' = req
          /\ nreq' = 1
          /\ pc' \in {"streaming", "responded", "done"}]_vars

C16_Witness ==
    /\ pc = "streaming"
    /\ call.op = "upload_firmware_file"
    /\ Len(wire) = 1
    /\ nreq = 1
    /\ resp = NoResp

\* C17 (as stated): a call through the client is permitted while another
\* call through the same client value is in progress.
C17_ConcurrentCallsPermitted == InProgress => ENABLED Calls

\* C17 (amended): no call through the client can begin while another call
\* through the same client value is in progress, and a call can begin as
\* soon as none is; nothing of the finished call is kept by the client.
C17_ExclusiveAccess ==
    /\ InProgress => ~ENABLED Calls
    /\ pc = "idle" =>
          /\ ENABLED Calls
          /\ <<call, req, nreq, resp, ret>> = <<NoCall, NoReq, 0, NoResp, NoRet>>

C17_Witness ==
    /\ pc = "sent"
    /\ call.op = "write_reg_uN"
    /\ ~ENABLED Calls
    /\ ~ENABLED reset

GenericOps ==
    {"read_mem_u", "read_mem_i", "write_mem_u", "write_mem_i",
     "read_reg_u", "read_reg_i", "write_reg_u", "write_reg_i"}

\* C19 (as stated): the width_bytes of every request a generic integer
\* accessor hands to the transport is one of 1, 2, 4, 8.
C19_WidthIsValid ==
    (pc \in {"sent", "responded", "done"} /\ call.op \in GenericOps) =>
        req.size \in Widths

WrapperOps ==
    {"write_mem_uN", "write_mem_iN", "read_mem_uN", "read_mem_iN",
     "write_reg_uN", "write_reg_iN", "read_reg_uN", "read_reg_iN"}

\* the request of the generic accessor of the wrapper's address space and
\* signedness, for the wrapper's handle and address, the width of the
\* wrapper's type and the wrapper's value widened to 64 bits
CallThrough(c) ==
    CASE c.op = "write_mem_uN" ->
            [method |-> "WriteMemU", id |-> c.id, offset |-> c.offset,
             data |-> c.data \o Pad(8 - c.w, 0), size |-> Len(c.data)]
      [] c.op = "write_mem_iN" ->
            [method |-> "WriteMemI", id |-> c.id, offset |-> c.offset,
             data |-> c.data \o Pad(8 - c.w, IF c.data[c.w] >= 128 THEN 255 ELSE 0),
             size |-> Len(c.data)]
      [] c.op = "write_reg_uN" ->
            [method |-> "WriteRegU", id |-> c.id, reg |-> c.reg,
             data |-> c.data \o Pad(8 - c.w, 0), size |-> Len(c.data)]
      [] c.op = "write_reg_iN" ->
            [method |-> "WriteRegI", id |-> c.id, reg |-> c.reg,
             data |-> c.data \o Pad(8 - c.w, IF c.data[c.w] >= 128 THEN 255 ELSE 0),
             size |-> Len(c.data)]
      [] c.op = "read_mem_uN" ->
            [method |-> "ReadMemU", id |-> c.id, offset |-> c.offset, size |-> c.w]
      [] c.op = "read_mem_iN" ->
            [method |-> "ReadMemI", id |-> c.id, offset |-> c.offset, size |-> c.w]
      [] c.op = "read_reg_uN" ->
            [method |-> "ReadRegU", id |-> c.id, reg |-> c.reg, size |-> c.w]
      [] c.op = "read_reg_iN" ->
            [method |-> "ReadRegI", id |-> c.id, reg |-> c.reg, size |-> c.w]

\* C20: a fixed-width wrapper of width w in 1, 2, 4, 8 hands the transport
\* one request, the request of the generic accessor of the same address
\* space and signedness for the same handle and address with width_bytes =
\* w and the value zero-extended (unsigned) or sign-extended (signed) to 64
\* bits, and returns the result flag of the response unchanged, or the
\* transport's error.
C20_WrapperIsCallThrough ==
    (pc \in {"sent", "responded", "done"} /\ call.op \in WrapperOps) =>
        /\ call.w \in Widths
        /\ nreq = 1
        /\ req = CallThrough(call)
        /\ (pc = "done" /\ resp.kind = "ok") =>
              (ret.kind = "ok" /\ ret.result = resp.msg.result)
        /\ (pc = "done" /\ resp.kind = "err") =>
              ret = [kind |-> "err", status |-> resp.status]

C20_Witness ==
    /\ pc = "done"
    /\ call.op = "write_reg_uN"
    /\ call.w = 4
    /\ call.data = <<255, 255, 255, 255>>
    /\ req = [method |-> "WriteRegU", id |-> call.id, reg |-> call.reg,
              data |-> <<255, 255, 255, 255, 0, 0, 0, 0>>, size |-> 4]
    /\ resp = [kind |-> "ok", msg |-> [result |-> FALSE]]
    /\ ret = [kind |-> "ok", result |-> FALSE]

\* C21: the client keeps nothing about handles.  An operation called with a
\* handle value hands the transport one request carrying that value, whether
\* or not the server has the handle open, and returns what the server
\* answered; between calls the client holds nothing of the calls before,
\* opens, subclones and closes included, and a call with any handle value
\* can begin.
C21_NoLocalHandleState ==
    /\ (pc # "idle" /\ HasId(call)) =>
          /\ nreq = 1
          /\ req.id = call.id
          /\ pc = "done" =>
                /\ resp.kind = "ok"
                /\ ret.kind = "ok"
                /\ ret.result = resp.msg.result
    /\ pc = "idle" =>
          /\ <<call, req, nreq, resp, ret>> = <<NoCall, NoReq, 0, NoResp, NoRet>>
          /\ \A id \in Ids :
                /\ ENABLED Send([op |-> "close", id |-> id],
                                [method |-> "Close", id |-> id])
                /\ ENABLED Send([op |-> "get_size", id |-> id],
                                [method |-> "GetSize", id |-> id])

C21_Witness ==
    /\ pc = "done"
    /\ call.op = "get_size"
    /\ srvOpen = {1}
    /\ srvClosed = {}
    /\ call.id = 2
    /\ req = [method |-> "GetSize", id |-> 2]
    /\ ret = [kind |-> "ok", result |-> FALSE, value |-> 0]

NumChunks(data) == (VLen(data) + TwoMiB - 1) \div TwoMiB

\* the chunk sequence of an upload of data under name: consecutive 2 MiB
\* pieces of data, the last one holding what is left
ChunksOf(name, data) ==
    [i \in 1 .. NumChunks(data) |->
        [name |-> name,
         data |-> VSlice(data, (i - 1) * TwoMiB, Min(i * TwoMiB, VLen(data)))]]

\* C22: an upload_firmware_file whose file read succeeded and an
\* upload_firmware of the file's bytes under the same name do the same: the
\* stream is built over the whole of the bytes before any chunk is produced,
\* the chunks handed to the transport are the leading chunks of the one
\* chunk sequence of (name, bytes), and the outcome returned is the
\* response's result or the transport's error.
C22_FileUploadIsUpload ==
    Uploading =>
        /\ nreq = 1
        /\ stream.name = call.name
        /\ stream.data = PayloadOf(call)
        /\ stream.chunk_size = TwoMiB
        /\ Len(wire) <= NumChunks(PayloadOf(call))
        /\ wire = SubSeq(ChunksOf(call.name, PayloadOf(call)), 1, Len(wire))
        /\ pc = "done" =>
              ret = IF resp.kind = "ok"
                    THEN [kind |-> "ok", result |-> resp.msg.result]
                    ELSE [kind |-> "err", status |-> resp.status]

C22_Witness ==
    /\ pc = "done"
    /\ call.op = "upload_firmware_file"
    /\ call.read.ok
    /\ VLen(call.read.data) = TwoMiB + 1
    /\ wire = ChunksOf(call.name, call.read.data)
    /\ Len(wire) = 2
    /\ ret = [kind |-> "ok", result |-> TRUE]

\* C23: every poll of the chunk producer yields a chunk or the end of the
\* stream and nothing else; it yields the end exactly when all the chunks
\* of the payload have been yielded, so after finitely many polls; once it
\* has yielded the end a later poll yields the end again and changes
\* nothing; and an upload that goes on being polled reaches the end of its
\* stream unless the call is over before.
C23_ProducerEndsAndStaysEnded ==
    /\ [][(pc = "streaming" /\ pc' = "streaming") =>
             /\ polled'.kind \in {"chunk", "end"}
             /\ (polled'.kind = "end") <=> (Len(wire) = NumChunks(PayloadOf(call)))
             /\ polled.kind = "end" =>
                   (polled' = polled /\ stream' = stream /\ wire' = wire)]_vars
    /\ [](pc = "streaming" =>
            /\ poll_next(stream).some <=> (stream.offset < VLen(stream.data))
            /\ polled.kind = "end" => ~poll_next(stream).some)
    /\ (pc = "streaming") ~> (polled.kind = "end" \/ pc # "streaming")

C23_Witness ==
    /\ pc = "streaming"
    /\ polled.kind = "end"
    /\ Len(wire) = 3
    /\ stream.offset = VLen(stream.data)
    /\ ~poll_next(stream).some
    /\ poll_next(stream).stream = stream

\* C24: throughout an upload 0 <= offset <= |payload|; no chunk handed over
\* is empty; every chunk but the latest is exactly 2 MiB long, and the
\* latest is shorter only when it ends the payload; and a poll that yields
\* a chunk moves offset forward by exactly that chunk's length.
C24_OffsetAndChunkBounds ==
    /\ [](Uploading =>
            /\ 0 <= stream.offset
            /\ stream.offset <= VLen(stream.data)
            /\ \A i \in 1 .. Len(wire) :
                  /\ VLen(wire[i].data) >= 1
                  /\ VLen(wire[i].data) <= TwoMiB
                  /\ i < Len(wire) => VLen(wire[i].data) = TwoMiB
            /\ (Len(wire) > 0 /\ VLen(wire[Len(wire)].data) < TwoMiB) =>
                  stream.offset = VLen(stream.data))
    /\ [][(pc = "streaming" /\ pc' = "streaming" /\ wire' # wire) =>
             /\ stream'.offset = stream.offset + VLen(wire'[Len(wire')].data)
             /\ stream'.offset > stream.offset]_vars

C24_Witness ==
    /\ pc = "streaming"
    /\ Len(wire) = 2
    /\ VLen(wire[1].data) = TwoMiB
    /\ VLen(wire[2].data) = TwoMiB - 1
    /\ stream.offset = 2 * TwoMiB - 1
    /\ stream.offset = VLen(stream.data)

====
